---------------------------- MODULE Spec2Model ----------------------------
(***************************************************************************)
(* A model of the s3-client server: the in-memory session store            *)
(* (server/storage.ts), the AWS gateway singleton (server/services/aws.ts),*)
(* the credential schemas (shared/schema.ts) and the Express routes        *)
(* (registerRoutes); and of the client's upload dialog (UploadModal).      *)
(*                                                                         *)
(* Strings the code looks inside (lengths, substring) are sequences of     *)
(* one-character strings.                                                  *)
(***************************************************************************)
EXTENDS Integers, Sequences, FiniteSets, TLC

VARIABLES
  sessions,   \* MemStorage.sessions: Map<string, S3Session>, a function on its keys
  lastCall,   \* the store call made last by a direct caller of the store
  handles,    \* <<id, credentials>> of every createSession result not yet deleted by id
  s3Client,   \* AwsService.s3Client of the exported singleton awsService
  cookie,     \* per browser: the s3-client-session cookie it holds
  replay,     \* session ids of cookies that a completed disconnect has cleared
  reqs,       \* per browser: its request in flight, or its last one with the answer
  received,   \* the number of requests received so far
  bucket,     \* the provider's side: the keys of the objects in the bucket
  listing,    \* the operation called last by a direct caller of the gateway
  modal       \* UploadModal: its files state and the startUpload run in progress

vars ==
  <<sessions, lastCall, handles, s3Client, cookie, replay, reqs, received, bucket, listing,
    modal>>

\* What only the direct callers of the store and of the gateway, and the
\* upload dialog, change.
unitVars == <<lastCall, handles, bucket, listing, modal>>

(***************************************************************************)
(* Bounds of the model.                                                    *)
(***************************************************************************)
\* Base-36 digit values a session id character is drawn from (1..NumIdDigits).
NumIdDigits == 2
\* Longest value of a string field of a request body.
MaxFieldLen == 2
\* Requests the server receives in a run, when requests overlap.
MaxRequests == 3
\* Requests the server receives in a run, when it handles one at a time.
MaxSequential == 4
\* Longest object key and longest prefix.
MaxKeyLen == 2
\* Most objects in the bucket.
MaxObjects == 3
MaxEndToEnd == 5
MaxClock == 2
MaxCodecLen == 3
MaxFiles == 3

(***************************************************************************)
(* Constants of the program.                                               *)
(***************************************************************************)
\* Attempts per command of an SDK client built without maxAttempts.
SdkMaxAttempts == 3

(***************************************************************************)
(* Values.                                                                 *)
(***************************************************************************)
\* JavaScript undefined where an object is expected (Map.get of a missing key).
Undefined == [js |-> "undefined"]
\* JavaScript null where an object is expected (the initial s3Client).
Null == [js |-> "null"]
\* JavaScript undefined where a string is expected (a missing property); no
\* string, since every character of a string is one character long.
UndefinedStr == <<"undefined">>

\* The empty string.
EmptyString == << >>

\* The digits of Number.prototype.toString(36).
Base36 ==
  <<"0", "1", "2", "3", "4", "5", "6", "7", "8", "9", "a", "b", "c", "d", "e",
    "f", "g", "h", "i", "j", "k", "l", "m", "n", "o", "p", "q", "r", "s", "t",
    "u", "v", "w", "x", "y", "z">>

(***************************************************************************)
(* shared/schema.ts: awsCredentialsSchema                                  *)
(***************************************************************************)
FieldChars == {"k"}

\* Strings of length 0..MaxFieldLen.
FieldStrings == UNION {[1..n -> FieldChars] : n \in 0..MaxFieldLen}

\* What a JSON body may hold in a string field: nothing, or a string.
FieldValues == {UndefinedStr} \cup FieldStrings

\* Request bodies of POST /api/connect/credentials; "extra" is a key the schema
\* does not know.
CredentialBodies ==
  [accessKeyId : FieldValues, secretAccessKey : FieldValues,
   region : FieldValues, sessionToken : FieldValues, extra : {UndefinedStr, <<"k">>}]

\* z.string().min(1, message): the issues of one required field.
RequiredStringIssues(body, field, message) ==
  IF body[field] = UndefinedStr
    THEN {[path |-> field, message |-> "Required"]}
    ELSE IF Len(body[field]) < 1
      THEN {[path |-> field, message |-> message]}
      ELSE {}

\* The issues zod reports for a body under awsCredentialsSchema.
awsCredentialsIssues(body) ==
  RequiredStringIssues(body, "accessKeyId", "Access Key ID is required")
    \cup RequiredStringIssues(body, "secretAccessKey", "Secret Access Key is required")
    \cup RequiredStringIssues(body, "region", "Region is required")

\* A mutant: the region is not validated.
awsCredentialsSchemaNoRegion(body) ==
  LET issues == RequiredStringIssues(body, "accessKeyId", "Access Key ID is required")
                  \cup RequiredStringIssues(body, "secretAccessKey", "Secret Access Key is required")
  IN IF issues = {}
       THEN [ok |-> TRUE,
             value |-> [accessKeyId |-> body.accessKeyId,
                        secretAccessKey |-> body.secretAccessKey,
                        region |-> body.region,
                        sessionToken |-> body.sessionToken],
             issues |-> {}]
       ELSE [ok |-> FALSE, value |-> Undefined, issues |-> issues]

\* awsCredentialsSchema.parse(body): the parsed value (unknown keys stripped), or
\* the ZodError's issues.
awsCredentialsSchema(body) ==
  LET issues == awsCredentialsIssues(body)
  IN IF issues = {}
       THEN [ok |-> TRUE,
             value |-> [accessKeyId |-> body.accessKeyId,
                        secretAccessKey |-> body.secretAccessKey,
                        region |-> body.region,
                        sessionToken |-> body.sessionToken],
             issues |-> {}]
       ELSE [ok |-> FALSE, value |-> Undefined, issues |-> issues]

(***************************************************************************)
(* server/storage.ts: MemStorage                                           *)
(***************************************************************************)
\* Math.random().toString(36): "0" for 0, else "0." and the fraction's digits.
RandomText(fraction) ==
  IF fraction = << >> THEN <<"0">> ELSE <<"0", ".">> \o fraction

\* String.prototype.substring(start): the characters from index start on.
Substring(s, start) == SubSeq(s, start + 1, Len(s))

\* The fractions Math.random() is drawn from: 0, a short fraction (0.5 is "0.i"),
\* and fractions of six digits that differ in the last one.
Fractions ==
  {<< >>, <<"i">>} \cup {<<"1", "1", "1", "1", "1", Base36[d + 1]>> : d \in 1..NumIdDigits}

\* The session ids createSession can produce.
SessionIds == {Substring(RandomText(f), 7) : f \in Fractions}

\* MemStorage.getSession(sessionId): Map.get.
getSession(store, sessionId) ==
  IF sessionId \in DOMAIN store THEN store[sessionId] ELSE Undefined

\* The S3Session createSession builds (createdAt is written and never read).
NewSession(fraction, credentials) ==
  [id |-> Substring(RandomText(fraction), 7), credentials |-> credentials]

\* MemStorage.createSession(credentials): Map.set under the new id.
createSession(store, fraction, credentials) ==
  LET session == NewSession(fraction, credentials)
  IN [k \in DOMAIN store \cup {session.id} |->
        IF k = session.id THEN session ELSE store[k]]

\* A mutant: delete removes nothing.
deleteSessionNothing(store, sessionId) == store

\* MemStorage.deleteSession(sessionId): Map.delete.
deleteSession(store, sessionId) ==
  [k \in DOMAIN store \ {sessionId} |-> store[k]]

(***************************************************************************)
(* shared/schema.ts: roleAssumptionSchema                                  *)
(***************************************************************************)
\* roleAssumptionSchema.parse(body).
roleAssumptionSchema(body) ==
  LET issues == RequiredStringIssues(body, "roleArn", "Role ARN is required")
                  \cup RequiredStringIssues(body, "region", "Region is required")
  IN IF issues = {}
       THEN [ok |-> TRUE,
             value |-> [roleArn |-> body.roleArn, region |-> body.region,
                        sessionName |-> body.sessionName],
             issues |-> {}]
       ELSE [ok |-> FALSE, value |-> Undefined, issues |-> issues]

(***************************************************************************)
(* server/services/aws.ts: AwsService                                      *)
(***************************************************************************)
\* new S3Client({credentials: {...}, region}) of initializeWithCredentials.
S3Client(credentials) ==
  [credentials |-> [accessKeyId |-> credentials.accessKeyId,
                    secretAccessKey |-> credentials.secretAccessKey,
                    sessionToken |-> credentials.sessionToken],
   region |-> credentials.region]

\* A mutant: the session token of the AssumeRole response is dropped.
RoleCredentialsNoToken(response, roleConfig) ==
  [accessKeyId |-> response.AccessKeyId,
   secretAccessKey |-> response.SecretAccessKey,
   sessionToken |-> UndefinedStr,
   region |-> roleConfig.region]

\* The AwsCredentials initializeWithRole builds from the AssumeRole response.
RoleCredentials(response, roleConfig) ==
  [accessKeyId |-> response.AccessKeyId,
   secretAccessKey |-> response.SecretAccessKey,
   sessionToken |-> response.SessionToken,
   region |-> roleConfig.region]

\* A mutant: the session name is passed on as given, without a default.
RoleSessionNameNoDefault(roleConfig) == roleConfig.sessionName

\* RoleSessionName: roleConfig.sessionName || 'S3ClientSession'.
RoleSessionName(roleConfig) ==
  IF roleConfig.sessionName = UndefinedStr \/ roleConfig.sessionName = EmptyString
    THEN <<"S", "3", "C", "l", "i", "e", "n", "t", "S", "e", "s", "s", "i", "o", "n">>
    ELSE roleConfig.sessionName

\* The characters of the keys that listObjects is listed over.
KeyChars == <<"/", "a">>

\* The characters of every name and key of the model, in the provider's (UTF-8
\* binary) order.
CharOrder == <<"%", ".", "/", "1", "2", "5", "F", "a", "b", "f", "k", "t", "x">>

\* The place of a character in that order.
CharRank(ch) == CHOOSE i \in 1..Len(CharOrder) : CharOrder[i] = ch

\* Strings over KeyChars of length lo..hi.
KeyStrings(lo, hi) ==
  UNION {[1..n -> {KeyChars[i] : i \in 1..Len(KeyChars)}] : n \in lo..hi}

\* Whether p is a prefix of k.
StartsWith(k, p) == Len(p) <= Len(k) /\ SubSeq(k, 1, Len(p)) = p

\* Whether a comes before b in the provider's order of keys.
RECURSIVE KeyLess(_, _)
KeyLess(a, b) ==
  IF a = << >> THEN b # << >>
  ELSE IF b = << >> THEN FALSE
  ELSE IF a[1] # b[1] THEN CharRank(a[1]) < CharRank(b[1])
  ELSE KeyLess(Tail(a), Tail(b))

\* The keys of a set, in the provider's order.
RECURSIVE SortedKeys(_)
SortedKeys(keys) ==
  IF keys = {} THEN << >>
  ELSE LET least == CHOOSE k \in keys : \A other \in keys \ {k} : KeyLess(k, other)
       IN <<least>> \o SortedKeys(keys \ {least})

\* The common prefix a key is rolled up into: the key up to the first
\* delimiter after the prefix; the key itself when there is none.
RolledUp(key, prefix, delimiter) ==
  LET after == {i \in (Len(prefix) + 1)..Len(key) : key[i] = delimiter}
  IN IF after = {} THEN key
     ELSE SubSeq(key, 1, CHOOSE i \in after : \A j \in after : i <= j)

\* The provider's answer to ListObjectsV2Command {Bucket, Prefix, Delimiter} over
\* the keys of the bucket: CommonPrefixes and Contents, each in key order and
\* each left out when it would be empty.
ListObjectsV2(keys, prefix, delimiter) ==
  LET matching == {k \in keys : StartsWith(k, prefix)}
      contents == {k \in matching : RolledUp(k, prefix, delimiter) = k
                                     /\ ~(\E i \in (Len(prefix) + 1)..Len(k) : k[i] = delimiter)}
      prefixes == {RolledUp(k, prefix, delimiter) : k \in matching \ contents}
      commonPrefixes == [i \in 1..Cardinality(prefixes) |-> [Prefix |-> SortedKeys(prefixes)[i]]]
      objects == [i \in 1..Cardinality(contents) |->
                    [Key |-> SortedKeys(contents)[i], Size |-> Len(SortedKeys(contents)[i]),
                     LastModified |-> "date", ETag |-> "etag", StorageClass |-> "STANDARD"]]
  IN CASE prefixes = {} /\ contents = {} -> [KeyCount |-> 0]
       [] prefixes = {} /\ contents # {} -> [KeyCount |-> Len(objects), Contents |-> objects]
       [] prefixes # {} /\ contents = {} ->
            [KeyCount |-> Len(commonPrefixes), CommonPrefixes |-> commonPrefixes]
       [] OTHER -> [KeyCount |-> Len(commonPrefixes) + Len(objects),
                    CommonPrefixes |-> commonPrefixes, Contents |-> objects]

\* A mutant: a common prefix is pushed like an object, with an (undefined)
\* size and isFolder false.
FolderEntriesAsFiles(response) ==
  IF "CommonPrefixes" \in DOMAIN response
    THEN [i \in 1..Len(response.CommonPrefixes) |->
            [key |-> response.CommonPrefixes[i].Prefix, size |-> 0, isFolder |-> FALSE]]
    ELSE << >>

\* The folder entries listObjects pushes for response.CommonPrefixes.
FolderEntries(response) ==
  IF "CommonPrefixes" \in DOMAIN response
    THEN [i \in 1..Len(response.CommonPrefixes) |->
            [key |-> response.CommonPrefixes[i].Prefix, isFolder |-> TRUE]]
    ELSE << >>

\* The file entry listObjects pushes for one object of response.Contents.
FileEntry(object) ==
  [key |-> object.Key, size |-> object.Size, lastModified |-> object.LastModified,
   etag |-> object.ETag, storageClass |-> object.StorageClass, isFolder |-> FALSE]

\* A mutant: the object whose key is the prefix is listed like any other.
KeepsObjectAny(object, prefix) == TRUE

\* if (object.Key !== prefix): the prefix itself is not listed.
KeepsObject(object, prefix) == object.Key # prefix

\* The file entries of the objects from the i-th on, in order.
RECURSIVE FileEntriesFrom(_, _, _)
FileEntriesFrom(contents, prefix, i) ==
  IF i > Len(contents) THEN << >>
  ELSE (IF KeepsObject(contents[i], prefix) THEN <<FileEntry(contents[i])>> ELSE << >>)
         \o FileEntriesFrom(contents, prefix, i + 1)

\* The file entries listObjects pushes for response.Contents.
FileEntries(response, prefix) ==
  IF "Contents" \in DOMAIN response
    THEN FileEntriesFrom(response.Contents, prefix, 1)
    ELSE << >>

\* A mutant: the files are pushed before the folders.
listObjectsFilesFirst(response, prefix) ==
  FileEntries(response, prefix) \o FolderEntries(response)

\* The S3Object[] that listObjects returns for the provider's response.
listObjects(response, prefix) ==
  FolderEntries(response) \o FileEntries(response, prefix)

(***************************************************************************)
(* encodeURIComponent and decodeURIComponent                               *)
(***************************************************************************)
\* What decodeURIComponent returns in place of a string when it throws URIError.
URIError == <<"URIError">>

\* The characters encodeURIComponent escapes, with their escapes; it leaves
\* letters, digits and - _ . ! ~ * ' ( ) alone.
Escaped == [ch \in {"%", "/"} |-> IF ch = "%" THEN <<"%", "2", "5">> ELSE <<"%", "2", "F">>]

\* encodeURIComponent(s), character by character.
RECURSIVE encodeURIComponent(_)
encodeURIComponent(s) ==
  IF s = << >> THEN << >>
  ELSE (IF s[1] \in DOMAIN Escaped THEN Escaped[s[1]] ELSE <<s[1]>>)
         \o encodeURIComponent(Tail(s))

\* The character that the escape %xy stands for, for x and y among the hex
\* digits 2, 5 and F: the other pairs of these digits are bytes that are no
\* character by themselves.
Unescaped ==
  [pair \in {<<"2", "2">>, <<"2", "5">>, <<"2", "F">>, <<"5", "2">>, <<"5", "5">>, <<"5", "F">>} |->
     CASE pair = <<"2", "2">> -> "\""
       [] pair = <<"2", "5">> -> "%"
       [] pair = <<"2", "F">> -> "/"
       [] pair = <<"5", "2">> -> "R"
       [] pair = <<"5", "5">> -> "U"
       [] pair = <<"5", "F">> -> "_"]

\* decodeURIComponent of s from its i-th character on: a % starts an escape
\* of two hex digits, and anything else after a % throws.
RECURSIVE DecodeFrom(_, _)
DecodeFrom(s, i) ==
  IF i > Len(s) THEN << >>
  ELSE IF s[i] # "%"
    THEN LET rest == DecodeFrom(s, i + 1)
         IN IF rest = URIError THEN URIError ELSE <<s[i]>> \o rest
  ELSE IF i + 2 <= Len(s) /\ <<s[i + 1], s[i + 2]>> \in DOMAIN Unescaped
    THEN LET rest == DecodeFrom(s, i + 3)
         IN IF rest = URIError THEN URIError ELSE <<Unescaped[<<s[i + 1], s[i + 2]>>]>> \o rest
  ELSE URIError

decodeURIComponent(s) == DecodeFrom(s, 1)

(***************************************************************************)
(* registerRoutes: the route table, in registration order                  *)
(***************************************************************************)
Lit(v) == [kind |-> "lit", v |-> v]
Param(v) == [kind |-> "param", v |-> v]
\* A literal followed by *, which matches whatever follows it.
Star(v) == [kind |-> "star", v |-> v]

Routes ==
  << [method |-> "POST", handler |-> "connectCredentials",
      pattern |-> <<Lit("api"), Lit("connect"), Lit("credentials")>>],
     [method |-> "POST", handler |-> "connectRole",
      pattern |-> <<Lit("api"), Lit("connect"), Lit("role")>>],
     [method |-> "GET", handler |-> "status",
      pattern |-> <<Lit("api"), Lit("connection"), Lit("status")>>],
     [method |-> "POST", handler |-> "disconnect",
      pattern |-> <<Lit("api"), Lit("disconnect")>>],
     [method |-> "GET", handler |-> "listBuckets",
      pattern |-> <<Lit("api"), Lit("buckets")>>],
     [method |-> "GET", handler |-> "listObjects",
      pattern |-> <<Lit("api"), Lit("buckets"), Param("bucketName"), Star("objects")>>],
     [method |-> "GET", handler |-> "download",
      pattern |-> <<Lit("api"), Lit("buckets"), Param("bucketName"), Lit("objects"),
                    Param("key"), Lit("download")>>],
     [method |-> "DELETE", handler |-> "delete",
      pattern |-> <<Lit("api"), Lit("buckets"), Param("bucketName"), Lit("objects"),
                    Param("key")>>],
     [method |-> "POST", handler |-> "upload",
      pattern |-> <<Lit("api"), Lit("buckets"), Param("bucketName"), Lit("upload")>>] >>

\* Whether path, from segment i on, matches pattern from element i on.
RECURSIVE MatchFrom(_, _, _)
MatchFrom(pattern, path, i) ==
  IF i > Len(pattern) THEN i > Len(path)
  ELSE IF i > Len(path) THEN FALSE
  ELSE IF pattern[i].kind = "star" THEN path[i] = pattern[i].v
  ELSE IF pattern[i].kind = "lit" THEN path[i] = pattern[i].v /\ MatchFrom(pattern, path, i + 1)
  ELSE MatchFrom(pattern, path, i + 1)

Matches(route, method, path) ==
  route.method = method /\ MatchFrom(route.pattern, path, 1)

\* Express: the first registered route that matches answers the request (no
\* handler calls next()).
Route(method, path) ==
  LET hits == {i \in 1..Len(Routes) : Matches(Routes[i], method, path)}
  IN IF hits = {} THEN "notFound"
     ELSE Routes[CHOOSE i \in hits : \A j \in hits : i <= j].handler

\* req.params of the route that answers: Express decodes the segment of each
\* parameter with decodeURIComponent.
RouteParams(method, path) ==
  LET hits == {i \in 1..Len(Routes) : Matches(Routes[i], method, path)}
      first == CHOOSE i \in hits : \A j \in hits : i <= j
      pattern == Routes[first].pattern
  IN [name \in {pattern[i].v : i \in {j \in 1..Len(pattern) : pattern[j].kind = "param"}} |->
        decodeURIComponent(
          path[CHOOSE i \in 1..Len(pattern) : pattern[i].kind = "param" /\ pattern[i].v = name])]

(***************************************************************************)
(* Requests                                                                *)
(***************************************************************************)
\* The browsers; each has one request in flight at a time.
Browsers == {"b1", "b2"}

\* A request line: the method, the segments of the path as they are sent (the
\* fixed ones as words, the ones the client fills in as strings of characters),
\* and the prefix of the query string as Express parses it.
Line(method, path) == [method |-> method, path |-> path, query |-> [prefix |-> UndefinedStr]]

\* GET /api/buckets/:bucketName/objects?prefix=...
ObjectsUrl(bucketName, prefix) ==
  [method |-> "GET", path |-> <<"api", "buckets", bucketName, "objects">>,
   query |-> [prefix |-> prefix]]

\* downloadMutation: GET /api/buckets/${bucket}/objects/${encodeURIComponent(key)}/download.
DownloadUrl(bucketName, key) ==
  Line("GET", <<"api", "buckets", bucketName, "objects", encodeURIComponent(key), "download">>)

\* deleteMutation: DELETE /api/buckets/${bucket}/objects/${encodeURIComponent(key)}.
DeleteUrl(bucketName, key) ==
  Line("DELETE", <<"api", "buckets", bucketName, "objects", encodeURIComponent(key)>>)

\* uploadMutation: POST /api/buckets/${bucketName}/upload.
UploadUrl(bucketName) == Line("POST", <<"api", "buckets", bucketName, "upload">>)

\* The bucket and the object the server model's requests name.
BucketName == <<"b", "1">>
FileKey == <<"f", "1">>

\* The request lines the client sends (client/src: apiRequest and fetch calls).
RequestLines ==
  { Line("POST", <<"api", "connect", "credentials">>),
    Line("POST", <<"api", "connect", "role">>),
    Line("GET", <<"api", "connection", "status">>),
    Line("POST", <<"api", "disconnect">>),
    Line("GET", <<"api", "buckets">>),
    Line("GET", <<"api", "buckets", BucketName, "objects">>),
    DownloadUrl(BucketName, FileKey),
    DeleteUrl(BucketName, FileKey),
    UploadUrl(BucketName) }

\* The handlers that serve a session: the five operations.
Operations == {"listBuckets", "listObjects", "download", "delete", "upload"}

\* The bodies of POST /api/connect/credentials the server model is driven with:
\* a valid body, and one with an empty region.
ServerCredentialBodies ==
  { [accessKeyId |-> <<"k">>, secretAccessKey |-> <<"k">>, region |-> <<"k">>,
     sessionToken |-> UndefinedStr, extra |-> UndefinedStr],
    [accessKeyId |-> <<"k">>, secretAccessKey |-> <<"k">>, region |-> EmptyString,
     sessionToken |-> UndefinedStr, extra |-> UndefinedStr] }

\* The bodies of POST /api/connect/role: one valid, one without a role ARN.
ServerRoleBodies ==
  { [roleArn |-> <<"k">>, region |-> <<"k">>, sessionName |-> UndefinedStr],
    [roleArn |-> UndefinedStr, region |-> <<"k">>, sessionName |-> UndefinedStr] }

\* The multipart bodies of the upload as multer leaves them: req.file (missing,
\* or the file with its bytes in memory) and req.body.key (missing, empty, or
\* a key).
UploadBodies ==
  [file : {Undefined, [buffer |-> "bytes", size |-> 1]},
   key : {UndefinedStr, EmptyString, <<"k">>}]

\* The upload dialog's "Maximum file size: 5GB", in GB.
SizeCeiling == 5

\* The sizes of the files a browser sends, in GB: below and above the ceiling.
FileSizes == {1, SizeCeiling + 1}

\* multer({ storage: multer.memoryStorage() }): the options name no limits.
MulterOptions == [storage |-> "memoryStorage"]

\* Whether upload.single('file') takes the file: it buffers the file whole
\* unless the file is larger than limits.fileSize, which without limits is
\* unbounded.
MulterAccepts(file) ==
  "limits" \in DOMAIN MulterOptions => file.size <= MulterOptions.limits.fileSize

\* The bodies the server model is driven with.
ServerBodies == ServerCredentialBodies \cup ServerRoleBodies \cup UploadBodies

NoBody == [none |-> TRUE]

\* What the security-token service answers: a rejection, a response without
\* Credentials, or temporary credentials.
StsResponses ==
  { [rejected |-> TRUE],
    [Credentials |-> Undefined],
    [Credentials |-> [AccessKeyId |-> <<"t">>, SecretAccessKey |-> <<"t">>,
                      SessionToken |-> <<"t">>]] }

\* The bodies a handler reads, among the bodies that are sent: each endpoint
\* gets the bodies its form posts.
BodiesFor(handler, bodies) ==
  CASE handler = "connectCredentials" -> {b \in bodies : "accessKeyId" \in DOMAIN b}
    [] handler = "connectRole" -> {b \in bodies : "roleArn" \in DOMAIN b}
    [] handler = "upload" -> {b \in bodies : "file" \in DOMAIN b}
    [] OTHER -> {NoBody}

\* A browser with no request in flight. A request's fields: the
\* handler's locals (sessionId, session, credentials), what it did to the gateway
\* (binds, the client its provider call went out on, the command, calls: how
\* often it called send or getSignedUrl, attempts: how often the SDK client sent
\* the command to the provider) and its response. For a disconnect, session records the session that
\* deleteSession removed (the handler itself does not read it).
IdleReq ==
  [pc |-> "idle", line |-> Line("", << >>), handler |-> "",
   browser |-> "", sessionId |-> UndefinedStr, replayed |-> FALSE, body |-> NoBody,
   session |-> Undefined, credentials |-> Undefined, binds |-> 0, client |-> Null,
   command |-> NoBody, calls |-> 0, attempts |-> 0, status |-> 0, out |-> NoBody]

\* A step of browser c's request leaves the request as r.
Step(c, r) == reqs' = [reqs EXCEPT ![c] = r]

\* res.status(status).json(out): the request is answered.
Respond(r, status, out) ==
  [r EXCEPT !.pc = "done", !.status = status, !.out = out]

\* !sessionId: undefined and the empty string are falsy.
Falsy(sessionId) == sessionId = UndefinedStr \/ sessionId = EmptyString

\* error instanceof Error ? error.message : fallback, of a ZodError: the
\* message lists the issues.
ZodMessage(issues) == [error |-> issues]

\* The handler's entry: the middleware in front of the handler (multer on the
\* upload route) and the code from the start of the handler to its first
\* await that yields (an async function runs synchronously to its first await,
\* so the store's Map operation has happened when the handler yields).
Entry(c, r) ==
  CASE r.handler = "connectCredentials" ->
         LET parsed == awsCredentialsSchema(r.body)
         IN IF ~parsed.ok
              THEN /\ Step(c, Respond(r, 400, ZodMessage(parsed.issues)))
                   /\ UNCHANGED <<sessions, s3Client, cookie, replay>>
              ELSE /\ s3Client' = S3Client(parsed.value)
                   /\ Step(c,
                        [r EXCEPT !.pc = "bound", !.binds = 1, !.credentials = parsed.value])
                   /\ UNCHANGED <<sessions, cookie, replay>>
    [] r.handler = "connectRole" ->
         LET parsed == roleAssumptionSchema(r.body)
         IN /\ Step(c,
                 IF ~parsed.ok
                   THEN Respond(r, 400, ZodMessage(parsed.issues))
                   ELSE [r EXCEPT !.pc = "sts", !.calls = 1, !.attempts = 1,
                                  !.command = [name |-> "AssumeRole",
                                               RoleArn |-> parsed.value.roleArn,
                                               RoleSessionName |-> RoleSessionName(parsed.value)]])
            /\ UNCHANGED <<sessions, s3Client, cookie, replay>>
    [] r.handler = "status" ->
         /\ Step(c,
              IF Falsy(r.sessionId)
                THEN Respond(r, 200, [connected |-> FALSE])
                ELSE [r EXCEPT !.pc = "lookup", !.session = getSession(sessions, r.sessionId)])
         /\ UNCHANGED <<sessions, s3Client, cookie, replay>>
    [] r.handler = "disconnect" ->
         IF Falsy(r.sessionId)
           THEN /\ Step(c, Respond(r, 200, [success |-> TRUE]))
                /\ UNCHANGED <<sessions, s3Client, cookie, replay>>
           ELSE /\ sessions' = deleteSession(sessions, r.sessionId)
                /\ Step(c, [r EXCEPT !.pc = "deleted",
                                      !.session = getSession(sessions, r.sessionId)])
                /\ UNCHANGED <<s3Client, cookie, replay>>
    [] r.handler \in Operations ->
         /\ Step(c,
              IF r.handler = "upload" /\ r.body.file # Undefined /\ ~MulterAccepts(r.body.file)
                THEN Respond(r, 500, [error |-> "File too large"])
              ELSE IF Falsy(r.sessionId)
                THEN Respond(r, 401, [error |-> "Not connected"])
                ELSE [r EXCEPT !.pc = "lookup", !.session = getSession(sessions, r.sessionId)])
         /\ UNCHANGED <<sessions, s3Client, cookie, replay>>

\* Browser c sends a request, one of lines, once its last one is answered: it
\* carries the browser's cookie, or an old cookie that a disconnect has
\* cleared; the router picks the handler, which runs to its first await.
Receive(c, lines, bodies, cap) ==
  /\ reqs[c].pc \in {"idle", "done"}
  /\ received < cap
  /\ received' = received + 1
  /\ \E line \in lines :
       \E sid \in {cookie[c]} \cup replay :
         \E body \in BodiesFor(Route(line.method, line.path), bodies) :
           Entry(c, [IdleReq EXCEPT !.pc = "entry", !.line = line,
                                    !.handler = Route(line.method, line.path),
                                    !.browser = c, !.sessionId = sid,
                                    !.replayed = sid \in replay, !.body = body])
  /\ UNCHANGED unitVars

\* A mutant: the handlers lack the "if (!session)" return, and reading
\* session.credentials of undefined throws into the catch block.
AfterLookupNoSessionCheck(c) ==
  LET r == reqs[c]
  IN /\ r.pc = "lookup"
     /\ IF r.session = Undefined
          THEN /\ Step(c,
                    Respond(r, 500, [error |-> "Cannot read properties of undefined"]))
               /\ UNCHANGED s3Client
          ELSE IF r.handler = "upload" /\ r.body.file = Undefined
            THEN /\ Step(c, Respond(r, 400, [error |-> "No file provided"]))
                 /\ UNCHANGED s3Client
          ELSE IF r.handler = "upload" /\ Falsy(r.body.key)
            THEN /\ Step(c, Respond(r, 400, [error |-> "No key provided"]))
                 /\ UNCHANGED s3Client
          ELSE /\ s3Client' = S3Client(r.session.credentials)
               /\ Step(c, [r EXCEPT !.pc = "bound", !.binds = 1])
     /\ UNCHANGED <<sessions, cookie, replay, received, unitVars>>

\* A mutant: the upload handler lacks the "if (!key)" return.
AfterLookupNoKeyCheck(c) ==
  LET r == reqs[c]
  IN /\ r.pc = "lookup"
     /\ IF r.session = Undefined
          THEN /\ Step(c,
                    IF r.handler = "status"
                      THEN Respond(r, 200, [connected |-> FALSE])
                      ELSE Respond(r, 401, [error |-> "Invalid session"]))
               /\ UNCHANGED s3Client
          ELSE IF r.handler = "upload" /\ r.body.file = Undefined
            THEN /\ Step(c, Respond(r, 400, [error |-> "No file provided"]))
                 /\ UNCHANGED s3Client
          ELSE /\ s3Client' = S3Client(r.session.credentials)
               /\ Step(c, [r EXCEPT !.pc = "bound", !.binds = 1])
     /\ UNCHANGED <<sessions, cookie, replay, received, unitVars>>

\* After "await storage.getSession(sessionId)": the session check, the upload's
\* checks of its parts, and the bind, up to "await initializeWithCredentials".
AfterLookup(c) ==
  LET r == reqs[c]
  IN /\ r.pc = "lookup"
     /\ IF r.session = Undefined
          THEN /\ Step(c,
                    IF r.handler = "status"
                      THEN Respond(r, 200, [connected |-> FALSE])
                      ELSE Respond(r, 401, [error |-> "Invalid session"]))
               /\ UNCHANGED s3Client
          ELSE IF r.handler = "upload" /\ r.body.file = Undefined
            THEN /\ Step(c, Respond(r, 400, [error |-> "No file provided"]))
                 /\ UNCHANGED s3Client
          ELSE IF r.handler = "upload" /\ Falsy(r.body.key)
            THEN /\ Step(c, Respond(r, 400, [error |-> "No key provided"]))
                 /\ UNCHANGED s3Client
          ELSE /\ s3Client' = S3Client(r.session.credentials)
               /\ Step(c, [r EXCEPT !.pc = "bound", !.binds = 1])
     /\ UNCHANGED <<sessions, cookie, replay, received, unitVars>>

\* GET /api/connection/status after its bind.
StatusRespond(c) ==
  LET r == reqs[c]
  IN /\ r.pc = "bound"
     /\ r.handler = "status"
     /\ Step(c,
          Respond(r, 200, [connected |-> TRUE, region |-> r.session.credentials.region]))
     /\ UNCHANGED <<sessions, s3Client, cookie, replay, received, unitVars>>

\* A mutant: the operations lack the "if (!this.s3Client)" throw.
UnboundNever(client) == FALSE

\* if (!this.s3Client): no client is bound.
Unbound(client) == client = Null

\* getSignedUrl's expiresIn, in seconds.
ExpiresIn == 3600

\* A mutant: the URL that was minted at time 0 is handed out again.
getDownloadUrlStale(client, bucketName, key, now) ==
  [Bucket |-> bucketName, Key |-> key, expiresIn |-> ExpiresIn, signedBy |-> client,
   signedAt |-> 0]

\* What getDownloadUrl returns at time now: the URL getSignedUrl computes for
\* GetObjectCommand {Bucket, Key}, signed with the bound client's credentials
\* at that time and valid for expiresIn seconds from it.
getDownloadUrl(client, bucketName, key, now) ==
  [Bucket |-> bucketName, Key |-> key, expiresIn |-> ExpiresIn, signedBy |-> client,
   signedAt |-> now]

\* The key the download and delete handlers hand to the gateway:
\* decodeURIComponent(key) of the route's (already decoded) parameter.
HandlerKey(r) == decodeURIComponent(RouteParams(r.line.method, r.line.path).key)

\* A mutant: the handler lists the bucket's root whatever the query says.
QueryPrefixIgnored(r) == EmptyString

\* const { prefix = '' } = req.query.
QueryPrefix(r) == IF r.line.query.prefix = UndefinedStr THEN EmptyString ELSE r.line.query.prefix

\* The command a gateway operation builds from what the handler hands it.
Command(r) ==
  LET params == RouteParams(r.line.method, r.line.path)
  IN CASE r.handler = "listBuckets" -> [name |-> "ListBuckets"]
       [] r.handler = "listObjects" ->
            [name |-> "ListObjectsV2", Bucket |-> params.bucketName,
             Prefix |-> QueryPrefix(r), Delimiter |-> "/"]
       [] r.handler = "download" ->
            [name |-> "GetObject", Bucket |-> params.bucketName, Key |-> HandlerKey(r)]
       [] r.handler = "delete" ->
            [name |-> "DeleteObject", Bucket |-> params.bucketName, Key |-> HandlerKey(r)]
       [] r.handler = "upload" ->
            [name |-> "PutObject", Bucket |-> params.bucketName, Key |-> r.body.key,
             Body |-> r.body.file.buffer]

\* After "await initializeWithCredentials": the handler evaluates the
\* operation's arguments (a key that does not decode throws into the catch
\* block), and the gateway operation runs up to its provider call, which goes
\* out on the client that is bound now.
Dispatch(c) ==
  LET r == reqs[c]
  IN /\ r.pc = "bound"
     /\ r.handler \in Operations
     /\ Step(c,
          IF r.handler \in {"download", "delete"} /\ HandlerKey(r) = URIError
            THEN Respond(r, 500, [error |-> "URI malformed"])
          ELSE IF Unbound(s3Client)
            THEN Respond(r, 500, [error |-> "AWS client not initialized"])
            ELSE [r EXCEPT !.pc = "io", !.client = s3Client, !.command = Command(r),
                           !.calls = r.calls + 1,
                           !.attempts = IF r.handler = "download" THEN 0 ELSE 1])
     /\ UNCHANGED <<sessions, s3Client, cookie, replay, received, unitVars>>

\* Inside send(command): the SDK client's retry middleware sends the command
\* again after an attempt that failed transiently, while attempts remain. The
\* clients are built without maxAttempts, so the SDK's default applies;
\* getSignedUrl sends nothing.
SdkRetry(c) ==
  LET r == reqs[c]
  IN /\ r.pc \in {"io", "sts"}
     /\ r.handler # "download"
     /\ r.attempts < SdkMaxAttempts
     /\ Step(c, [r EXCEPT !.attempts = r.attempts + 1])
     /\ UNCHANGED <<sessions, s3Client, cookie, replay, received, unitVars>>

\* What a handler answers when its gateway operation succeeds.
SuccessBody(r) ==
  CASE r.handler = "listBuckets" -> [array |-> "S3Bucket[]"]
    [] r.handler = "listObjects" -> [array |-> "S3Object[]"]
    [] r.handler = "download" ->
         [downloadUrl |-> [bucket |-> r.command.Bucket, key |-> r.command.Key,
                           expiresIn |-> ExpiresIn]]
    [] OTHER -> [success |-> TRUE]

\* The provider's answer arrives: the result, or a thrown error that the catch
\* block turns into a 500.
ProviderReturns(c) ==
  LET r == reqs[c]
  IN /\ r.pc = "io"
     /\ \E ok \in BOOLEAN :
          Step(c,
            IF ok THEN Respond(r, 200, SuccessBody(r))
                  ELSE Respond(r, 500, [error |-> "provider error"]))
     /\ UNCHANGED <<sessions, s3Client, cookie, replay, received, unitVars>>

\* initializeWithRole after "await stsClient.send(command)".
StsReturns(c) ==
  LET r == reqs[c]
  IN /\ r.pc = "sts"
     /\ \E response \in StsResponses :
          IF "rejected" \in DOMAIN response
            THEN /\ Step(c, Respond(r, 400, [error |-> "provider error"]))
                 /\ UNCHANGED s3Client
            ELSE IF response.Credentials = Undefined
              THEN /\ Step(c,
                        Respond(r, 400, [error |-> "Failed to assume role - no credentials returned"]))
                   /\ UNCHANGED s3Client
              ELSE LET credentials ==
                         RoleCredentials(response.Credentials, roleAssumptionSchema(r.body).value)
                   IN /\ s3Client' = S3Client(credentials)
                      /\ Step(c,
                           [r EXCEPT !.pc = "bound", !.binds = 1, !.credentials = credentials])
     /\ UNCHANGED <<sessions, cookie, replay, received, unitVars>>

\* The connect handlers after their bind: "await storage.createSession(credentials)".
CreateSessionStep(c) ==
  LET r == reqs[c]
  IN /\ r.pc = "bound"
     /\ r.handler \in {"connectCredentials", "connectRole"}
     /\ \E fraction \in Fractions :
          /\ sessions' = createSession(sessions, fraction, r.credentials)
          /\ Step(c,
               [r EXCEPT !.pc = "created", !.session = NewSession(fraction, r.credentials)])
     /\ UNCHANGED <<s3Client, cookie, replay, received, unitVars>>

\* The connect handlers' end: req.session.sessionId = session.id and the
\* response, whose Set-Cookie the browser stores.
ConnectRespond(c) ==
  LET r == reqs[c]
  IN /\ r.pc = "created"
     /\ cookie' = [cookie EXCEPT ![r.browser] = r.session.id]
     /\ Step(c,
          Respond(r, 200, [success |-> TRUE, sessionId |-> r.session.id]))
     /\ UNCHANGED <<sessions, s3Client, replay, received, unitVars>>

\* POST /api/disconnect after "await storage.deleteSession(sessionId)":
\* req.session = null clears the browser's cookie.
DisconnectRespond(c) ==
  LET r == reqs[c]
  IN /\ r.pc = "deleted"
     /\ cookie' = [cookie EXCEPT ![r.browser] = UndefinedStr]
     /\ replay' = replay \cup {r.sessionId}
     /\ Step(c, Respond(r, 200, [success |-> TRUE]))
     /\ UNCHANGED <<sessions, s3Client, received, unitVars>>

(***************************************************************************)
(* UploadModal: the upload dialog                                          *)
(***************************************************************************)
\* The dialog before any file is chosen. files is the React state (each entry
\* a File, named by a number, with its status); pc tells whether a startUpload
\* run awaits its upload; closure is the files array that run's closure holds,
\* i the run's loop index (from 1); chosen counts the File objects chosen so far.
ClosedModal == [files |-> << >>, pc |-> "idle", closure |-> << >>, i |-> 0, chosen |-> 0]

\* prev.map((f, idx) => idx === i ? { ...f, status } : f).
SetStatus(prev, i, status) ==
  [idx \in 1..Len(prev) |-> IF idx = i THEN [prev[idx] EXCEPT !.status = status] ELSE prev[idx]]

\* prev.filter((_, i) => i !== index).
Without(prev, index) ==
  [idx \in 1..(Len(prev) - 1) |-> IF idx < index THEN prev[idx] ELSE prev[idx + 1]]

\* The loop's next index from from on whose entry of the closure's array is
\* 'ready' (the others are skipped by continue); 0 when the loop ends.
NextReady(closure, from) ==
  LET ready == {i \in from..Len(closure) : closure[i].status = "ready"}
  IN IF ready = {} THEN 0 ELSE CHOOSE i \in ready : \A j \in ready : i <= j

\* startUpload's loop from index from on, with the state's files being prev:
\* up to its next await (the entry at the loop index is set to 'uploading'
\* and the file of the closure's array at that index is sent), or to its end.
RunFrom(m, prev, from) ==
  LET i == NextReady(m.closure, from)
  IN IF i = 0
       THEN [m EXCEPT !.files = prev, !.pc = "idle", !.closure = << >>, !.i = 0]
       ELSE [m EXCEPT !.files = SetStatus(prev, i, "uploading"), !.pc = "awaiting", !.i = i]

\* handleFileSelect: a chosen file is appended as 'ready'.
HandleFileSelect ==
  /\ modal.chosen < MaxFiles
  /\ modal' = [modal EXCEPT !.files = Append(modal.files,
                                             [file |-> modal.chosen + 1, status |-> "ready"]),
                            !.chosen = modal.chosen + 1]
  /\ UNCHANGED <<sessions, lastCall, handles, s3Client, cookie, replay, reqs, received, bucket,
                 listing>>

\* removeFile(index), from the button of an entry that is not 'uploading'.
RemoveFile ==
  \E index \in 1..Len(modal.files) :
    /\ modal.files[index].status # "uploading"
    /\ modal' = [modal EXCEPT !.files = Without(modal.files, index)]
    /\ UNCHANGED <<sessions, lastCall, handles, s3Client, cookie, replay, reqs, received,
                   bucket, listing>>

\* startUpload, from its button (disabled while there is no file or an upload
\* is pending): the run starts with the files array of this render.
StartUpload ==
  /\ Len(modal.files) > 0
  /\ modal.pc = "idle"
  /\ modal' = RunFrom([modal EXCEPT !.closure = modal.files], modal.files, 1)
  /\ UNCHANGED <<sessions, lastCall, handles, s3Client, cookie, replay, reqs, received, bucket,
                 listing>>

\* After "await uploadMutation.mutateAsync": the entry at the loop index is
\* set to 'completed', or to 'error' in the catch block, and the loop goes on.
UploadSettles ==
  /\ modal.pc = "awaiting"
  /\ \E ok \in BOOLEAN :
       modal' = RunFrom(modal,
                        SetStatus(modal.files, modal.i, IF ok THEN "completed" ELSE "error"),
                        modal.i + 1)
  /\ UNCHANGED <<sessions, lastCall, handles, s3Client, cookie, replay, reqs, received, bucket,
                 listing>>

\* handleClose: setFiles([]).
HandleClose ==
  /\ modal.files # << >>
  /\ modal' = [modal EXCEPT !.files = << >>]
  /\ UNCHANGED <<sessions, lastCall, handles, s3Client, cookie, replay, reqs, received, bucket,
                 listing>>

NextModal == HandleFileSelect \/ RemoveFile \/ StartUpload \/ UploadSettles \/ HandleClose

(***************************************************************************)
(* The server                                                              *)
(***************************************************************************)
NoCall == [op |-> "none"]

Init ==
  /\ sessions = << >>
  /\ lastCall = NoCall
  /\ handles = {}
  /\ s3Client = Null
  /\ cookie = [b \in Browsers |-> UndefinedStr]
  /\ replay = {}
  /\ reqs = [c \in Browsers |-> IdleReq]
  /\ received = 0
  /\ bucket = {}
  /\ listing = NoCall
  /\ modal = ClosedModal

Next ==
  \E c \in Browsers :
    \/ Receive(c, RequestLines, ServerBodies, MaxRequests)
    \/ AfterLookup(c)
    \/ StatusRespond(c)
    \/ Dispatch(c)
    \/ ProviderReturns(c)
    \/ StsReturns(c)
    \/ SdkRetry(c)
    \/ CreateSessionStep(c)
    \/ ConnectRespond(c)
    \/ DisconnectRespond(c)

Spec == Init /\ [][Next]_vars

(***************************************************************************)
(* The server handling one request at a time                               *)
(***************************************************************************)
NoneInFlight == \A c \in Browsers : reqs[c].pc \in {"idle", "done"}

NextSequential ==
  \E c \in Browsers :
    \/ NoneInFlight /\ Receive(c, RequestLines, ServerBodies, MaxSequential)
    \/ AfterLookup(c)
    \/ StatusRespond(c)
    \/ Dispatch(c)
    \/ ProviderReturns(c)
    \/ StsReturns(c)
    \/ SdkRetry(c)
    \/ CreateSessionStep(c)
    \/ ConnectRespond(c)
    \/ DisconnectRespond(c)

SpecSequential == Init /\ [][NextSequential]_vars

(***************************************************************************)
(* POST /api/connect/credentials alone, over every body                    *)
(***************************************************************************)
CredentialsLine == Line("POST", <<"api", "connect", "credentials">>)

NextResolver ==
  \/ Receive("b1", {CredentialsLine}, CredentialBodies, 1)
  \/ CreateSessionStep("b1")
  \/ ConnectRespond("b1")

SpecResolver == Init /\ [][NextResolver]_vars

(***************************************************************************)
(* The session store under its callers' calls, in any order                *)
(***************************************************************************)
\* The records the store is given: a static-key record and a role record.
StoreCredentials ==
  { [accessKeyId |-> <<"k">>, secretAccessKey |-> <<"k">>, region |-> <<"k">>,
     sessionToken |-> UndefinedStr],
    [accessKeyId |-> <<"t">>, secretAccessKey |-> <<"t">>, region |-> <<"k">>,
     sessionToken |-> <<"t">>] }

\* The ids a caller may ask for: every id the store can produce, and one it cannot.
AskedIds == SessionIds \cup {<<"z">>}

CreateSessionCall ==
  \E fraction \in Fractions, credentials \in StoreCredentials :
    /\ sessions' = createSession(sessions, fraction, credentials)
    /\ lastCall' = [op |-> "createSession", credentials |-> credentials,
                    result |-> NewSession(fraction, credentials)]
    /\ handles' = handles \cup {<<NewSession(fraction, credentials).id, credentials>>}
    /\ UNCHANGED <<s3Client, cookie, replay, reqs, received, bucket, listing, modal>>

GetSessionCall ==
  \E sessionId \in AskedIds :
    /\ lastCall' = [op |-> "getSession", sessionId |-> sessionId,
                    result |-> getSession(sessions, sessionId)]
    /\ UNCHANGED <<sessions, handles, s3Client, cookie, replay, reqs, received, bucket, listing, modal>>

DeleteSessionCall ==
  \E sessionId \in AskedIds :
    /\ sessions' = deleteSession(sessions, sessionId)
    /\ lastCall' = [op |-> "deleteSession", sessionId |-> sessionId,
                    existed |-> sessionId \in DOMAIN sessions]
    /\ handles' = {h \in handles : h[1] # sessionId}
    /\ UNCHANGED <<s3Client, cookie, replay, reqs, received, bucket, listing, modal>>

NextStore == CreateSessionCall \/ GetSessionCall \/ DeleteSessionCall

SpecStore == Init /\ [][NextStore]_vars

(***************************************************************************)
(* AwsService.listObjects under direct calls, over every bucket            *)
(***************************************************************************)
\* The buckets: up to MaxObjects objects with keys of 1..MaxKeyLen characters.
Buckets ==
  {keys \in SUBSET KeyStrings(1, MaxKeyLen) : Cardinality(keys) <= MaxObjects}

Prefixes == KeyStrings(0, MaxKeyLen)

InitList ==
  /\ sessions = << >>
  /\ lastCall = NoCall
  /\ handles = {}
  /\ s3Client = Null
  /\ cookie = [b \in Browsers |-> UndefinedStr]
  /\ replay = {}
  /\ reqs = [c \in Browsers |-> IdleReq]
  /\ received = 0
  /\ bucket \in Buckets
  /\ listing = NoCall
  /\ modal = ClosedModal

\* A mutant: a bind keeps the client that is bound already.
BindCallKeepsFirst ==
  \E credentials \in StoreCredentials :
    /\ s3Client' = IF s3Client = Null THEN S3Client(credentials) ELSE s3Client
    /\ lastCall' = [op |-> "bind", credentials |-> credentials]
    /\ UNCHANGED <<sessions, handles, cookie, replay, reqs, received, bucket, listing, modal>>

\* awsService.initializeWithCredentials(credentials), called directly.
BindCall ==
  \E credentials \in StoreCredentials :
    /\ s3Client' = S3Client(credentials)
    /\ lastCall' = [op |-> "bind", credentials |-> credentials]
    /\ UNCHANGED <<sessions, handles, cookie, replay, reqs, received, bucket, listing, modal>>

\* awsService.listObjects(bucketName, prefix): it throws when no client is
\* bound or when the provider call fails, and returns the entries otherwise.
\* The call is recorded with the client it ran on.
ListObjectsCall ==
  \E prefix \in Prefixes, ok \in BOOLEAN :
    /\ listing' =
         IF Unbound(s3Client)
           THEN [op |-> "listObjects", prefix |-> prefix, client |-> s3Client,
                 calls |-> 0, thrown |-> "AWS client not initialized"]
         ELSE IF ~ok
           THEN [op |-> "listObjects", prefix |-> prefix, client |-> s3Client,
                 calls |-> 1, thrown |-> "provider error"]
         ELSE [op |-> "listObjects", prefix |-> prefix, client |-> s3Client, calls |-> 1,
               response |-> ListObjectsV2(bucket, prefix, "/"),
               result |-> listObjects(ListObjectsV2(bucket, prefix, "/"), prefix)]
    /\ UNCHANGED <<sessions, lastCall, handles, s3Client, cookie, replay, reqs, received, bucket, modal>>

NextList == BindCall \/ ListObjectsCall

SpecList == InitList /\ [][NextList]_vars

(***************************************************************************)
(* One connect request, by static keys over every body or by role          *)
(***************************************************************************)
RoleLine == Line("POST", <<"api", "connect", "role">>)

NextConnect ==
  \/ Receive("b1", {CredentialsLine, RoleLine}, CredentialBodies \cup ServerRoleBodies, 1)
  \/ StsReturns("b1")
  \/ SdkRetry("b1")
  \/ CreateSessionStep("b1")
  \/ ConnectRespond("b1")

SpecConnect == Init /\ [][NextConnect]_vars

(***************************************************************************)
(* AwsService under direct calls of its operations, in any order           *)
(***************************************************************************)
GatewayKeys == {FileKey, <<"k">>}

\* The times of the calls.
Times == 1..MaxClock

\* What an operation called with args leaves when no client is bound: it
\* throws before it builds a command.
NotInitialized(op, args) ==
  [op |-> op, args |-> args, client |-> s3Client, calls |-> 0,
   thrown |-> "AWS client not initialized"]

\* What an operation leaves after it sent command on the bound client: it
\* returns result, or throws what the provider call threw.
Sent(op, args, command, ok, result) ==
  IF ok
    THEN [op |-> op, args |-> args, client |-> s3Client, calls |-> 1,
          command |-> command, result |-> result]
    ELSE [op |-> op, args |-> args, client |-> s3Client, calls |-> 1,
          command |-> command, thrown |-> "provider error"]

\* awsService.listBuckets().
ListBucketsCall ==
  \E ok \in BOOLEAN :
    /\ listing' =
         IF Unbound(s3Client)
           THEN NotInitialized("listBuckets", NoBody)
           ELSE Sent("listBuckets", NoBody, [name |-> "ListBuckets"], ok,
                     [array |-> "S3Bucket[]"])
    /\ UNCHANGED <<sessions, lastCall, handles, s3Client, cookie, replay, reqs, received, bucket, modal>>

\* awsService.getDownloadUrl(bucketName, key) at time now: getSignedUrl
\* computes the URL on this machine and sends nothing.
GetDownloadUrlCall ==
  \E key \in GatewayKeys, now \in Times :
    LET args == [bucketName |-> BucketName, key |-> key, now |-> now]
    IN /\ listing' =
            IF Unbound(s3Client)
              THEN NotInitialized("getDownloadUrl", args)
              ELSE Sent("getDownloadUrl", args,
                        [name |-> "GetObject", Bucket |-> BucketName, Key |-> key], TRUE,
                        getDownloadUrl(s3Client, BucketName, key, now))
       /\ UNCHANGED <<sessions, lastCall, handles, s3Client, cookie, replay, reqs, received, bucket, modal>>

\* awsService.deleteObject(bucketName, key).
DeleteObjectCall ==
  \E key \in GatewayKeys, ok \in BOOLEAN :
    LET args == [bucketName |-> BucketName, key |-> key]
    IN /\ listing' =
            IF Unbound(s3Client)
              THEN NotInitialized("deleteObject", args)
              ELSE Sent("deleteObject", args,
                        [name |-> "DeleteObject", Bucket |-> BucketName, Key |-> key], ok,
                        Undefined)
       /\ UNCHANGED <<sessions, lastCall, handles, s3Client, cookie, replay, reqs, received, bucket, modal>>

\* awsService.uploadObject(bucketName, key, body).
UploadObjectCall ==
  \E key \in GatewayKeys, ok \in BOOLEAN :
    LET args == [bucketName |-> BucketName, key |-> key, body |-> "bytes"]
    IN /\ listing' =
            IF Unbound(s3Client)
              THEN NotInitialized("uploadObject", args)
              ELSE Sent("uploadObject", args,
                        [name |-> "PutObject", Bucket |-> BucketName, Key |-> key,
                         Body |-> "bytes"], ok, Undefined)
       /\ UNCHANGED <<sessions, lastCall, handles, s3Client, cookie, replay, reqs, received, bucket, modal>>

NextGateway ==
  \/ BindCall
  \/ ListBucketsCall
  \/ ListObjectsCall
  \/ GetDownloadUrlCall
  \/ DeleteObjectCall
  \/ UploadObjectCall

SpecGateway == Init /\ [][NextGateway]_vars

(***************************************************************************)
(* registerRoutes' session options and the way of a key to the gateway,    *)
(* over every environment and every key                                    *)
(***************************************************************************)
\* An environment variable that is not set reads as undefined.
NodeEnvs == {UndefinedStr, <<"p", "r", "o", "d", "u", "c", "t", "i", "o", "n">>,
             <<"d", "e", "v", "e", "l", "o", "p", "m", "e", "n", "t">>}

Environments == [NODE_ENV : NodeEnvs, SESSION_SECRET : FieldValues]

\* 'dev-secret-key'.
DevSecretKey == <<"d", "e", "v", "-", "s", "e", "c", "r", "e", "t", "-", "k", "e", "y">>

\* The options registerRoutes hands to cookieSession under the environment env.
cookieSessionOptions(env) ==
  [name |-> "s3-client-session",
   keys |-> <<IF env.SESSION_SECRET = UndefinedStr \/ env.SESSION_SECRET = EmptyString
                THEN DevSecretKey ELSE env.SESSION_SECRET>>,
   httpOnly |-> TRUE,
   secure |-> env.NODE_ENV = <<"p", "r", "o", "d", "u", "c", "t", "i", "o", "n">>,
   sameSite |-> "strict"]

\* registerRoutes(app) under an environment: it configures the session
\* middleware and does not throw.
RegisterRoutesCall ==
  \E env \in Environments :
    /\ lastCall' = [op |-> "registerRoutes", env |-> env,
                    cookieSession |-> cookieSessionOptions(env)]
    /\ UNCHANGED <<sessions, handles, s3Client, cookie, replay, reqs, received, bucket, listing, modal>>

\* The keys a client starts from: strings of % / 2 5 k.
CodecKeys == UNION {[1..n -> {"%", "/", "2", "5", "k"}] : n \in 1..MaxCodecLen}

\* The client's download or delete of key: the request line it sends, the
\* handler the router picks, and the key that handler hands to the gateway
\* (none when the handler is not the download or delete handler).
KeyRequest ==
  \E key \in CodecKeys :
  \E line \in {DownloadUrl(BucketName, key), DeleteUrl(BucketName, key)} :
    /\ lastCall' =
         [op |-> "keyRequest", key |-> key, line |-> line,
          handler |-> Route(line.method, line.path),
          reached |-> IF Route(line.method, line.path) \in {"download", "delete"}
                        THEN HandlerKey([line |-> line]) ELSE UndefinedStr]
    /\ UNCHANGED <<sessions, handles, s3Client, cookie, replay, reqs, received, bucket, listing, modal>>

NextFunctions == RegisterRoutesCall \/ KeyRequest

SpecFunctions == Init /\ [][NextFunctions]_vars

(***************************************************************************)
(* One browser in front of a provider that keeps the bucket's objects      *)
(***************************************************************************)
\* The keys the browser uploads and deletes: a/b.txt and k.
FolderPrefix == <<"a", "/">>
FolderFile == <<"a", "/", "b", ".", "t", "x", "t">>
EndToEndKeys == {FolderFile, <<"k">>}

EndToEndLines ==
  {CredentialsLine, UploadUrl(BucketName)}
    \cup {ObjectsUrl(BucketName, prefix) : prefix \in {EmptyString, FolderPrefix}}
    \cup {DeleteUrl(BucketName, key) : key \in EndToEndKeys}

\* Valid keys, and an upload of a file of each size at each key.
EndToEndBodies ==
  {body \in ServerCredentialBodies : awsCredentialsSchema(body).ok}
    \cup [file : {[buffer |-> "bytes", size |-> size] : size \in FileSizes},
          key : EndToEndKeys]

\* The provider executes the command of browser c's call on the bucket, or
\* fails and leaves the bucket alone; the gateway operation returns (listObjects
\* builds its entries from the response) and the handler answers.
ProviderExecutes(c) ==
  LET r == reqs[c]
  IN /\ r.pc = "io"
     /\ r.handler \in {"listObjects", "delete", "upload"}
     /\ \E ok \in BOOLEAN :
          IF ~ok
            THEN /\ Step(c, Respond(r, 500, [error |-> "provider error"]))
                 /\ UNCHANGED bucket
            ELSE CASE r.command.name = "PutObject" ->
                        /\ bucket' = bucket \cup {r.command.Key}
                        /\ Step(c, Respond(r, 200, SuccessBody(r)))
                   [] r.command.name = "DeleteObject" ->
                        /\ bucket' = bucket \ {r.command.Key}
                        /\ Step(c, Respond(r, 200, SuccessBody(r)))
                   [] r.command.name = "ListObjectsV2" ->
                        /\ UNCHANGED bucket
                        /\ Step(c,
                             Respond(r, 200,
                               [array |-> listObjects(
                                           ListObjectsV2(bucket, r.command.Prefix,
                                                         r.command.Delimiter),
                                           r.command.Prefix)]))
     /\ UNCHANGED <<sessions, lastCall, handles, s3Client, cookie, replay, received, listing, modal>>

NextEndToEnd ==
  \/ Receive("b1", EndToEndLines, EndToEndBodies, MaxEndToEnd)
  \/ AfterLookup("b1")
  \/ Dispatch("b1")
  \/ ProviderExecutes("b1")
  \/ CreateSessionStep("b1")
  \/ ConnectRespond("b1")

SpecEndToEnd == Init /\ [][NextEndToEnd]_vars

(***************************************************************************)
(* The upload dialog under its user's actions                              *)
(***************************************************************************)
SpecModal == Init /\ [][NextModal]_vars

(***************************************************************************)
(* Claims                                                                  *)
(***************************************************************************)
\* The request lines of the five operations.
OperationLines ==
  {line \in RequestLines :
     \/ line.method = "DELETE"
     \/ line.path[2] = "buckets"}

DownloadLine == DownloadUrl(BucketName, FileKey)

ConnectHandlers == {"connectCredentials", "connectRole"}

\* C1: every provider call made for a request of one of the five operations
\* goes out on a client bound to the credentials stored for the session that
\* the request itself looked up, whatever other requests do in between.
C1_CallUsesOwnSessionCredentials ==
  \A c \in Browsers :
    (reqs[c].handler \in Operations /\ reqs[c].calls > 0)
      => reqs[c].client = S3Client(reqs[c].session.credentials)

\* C2: a GET /api/buckets that carries a cookie which a completed disconnect
\* has cleared is answered 401.
C2_ReplayedCookieIsUnauthorized ==
  \A c \in Browsers :
    (reqs[c].pc = "done" /\ reqs[c].line.path = <<"api", "buckets">> /\ reqs[c].replayed)
      => reqs[c].status = 401

\* C3: a request for one of the five operations whose cookie has no session id,
\* or whose session id the store did not hold when the handler looked it up, is
\* answered 401 at its next step, and it neither binds the gateway nor makes a
\* provider call.
C3_NoSessionIsUnauthorized ==
  \A c \in Browsers :
    (reqs[c].line \in OperationLines /\ reqs[c].session = Undefined)
      => /\ reqs[c].pc \in {"lookup", "done"}
         /\ reqs[c].sessionId = UndefinedStr => reqs[c].pc = "done"
         /\ reqs[c].pc = "done" => reqs[c].status = 401
         /\ reqs[c].binds = 0
         /\ reqs[c].calls = 0
         /\ reqs[c].client = Null

\* C3's case: a request that carried a session id and was answered 401 because
\* the store no longer held it.
C3_Witness ==
  \E c \in Browsers :
    /\ reqs[c].line \in OperationLines
    /\ reqs[c].pc = "done"
    /\ ~Falsy(reqs[c].sessionId)
    /\ reqs[c].session = Undefined
    /\ reqs[c].status = 401
    /\ s3Client # Null

\* C4: a successful GET /api/buckets/:bucket/objects/:key/download was handled
\* by the download handler, which asked the gateway for the URL of that bucket
\* and key, and its body is {downloadUrl}.
C4_DownloadAnsweredByDownloadHandler ==
  \A c \in Browsers :
    (reqs[c].pc = "done" /\ reqs[c].line = DownloadLine /\ reqs[c].status = 200)
      => /\ reqs[c].handler = "download"
         /\ reqs[c].command = [name |-> "GetObject", Bucket |-> BucketName, Key |-> FileKey]
         /\ DOMAIN reqs[c].out = {"downloadUrl"}

\* C5: getSession of the id that createSession returned for a record gives a
\* session with that record, as long as deleteSession was not called with the id.
C5_GetAfterCreate ==
  \A h \in handles :
    /\ getSession(sessions, h[1]) # Undefined
    /\ getSession(sessions, h[1]).credentials = h[2]

\* C6: createSession leaves every session that is in the store as it is, and
\* deleteSession(id) leaves every session but the one with that id as it is.
C6_NoLostUpdate ==
  [][ /\ lastCall'.op = "createSession" =>
           \A id \in DOMAIN sessions :
             getSession(sessions', id) = getSession(sessions, id)
      /\ lastCall'.op = "deleteSession" =>
           \A id \in DOMAIN sessions \ {lastCall'.sessionId} :
             getSession(sessions', id) = getSession(sessions, id) ]_vars

\* C7: right after deleteSession(id), getSession(id) is undefined, and a
\* deleteSession of an id the store does not hold leaves the store as it was.
C7_DeleteThenAbsent ==
  [][ lastCall'.op = "deleteSession" =>
        /\ getSession(sessions', lastCall'.sessionId) = Undefined
        /\ getSession(sessions, lastCall'.sessionId) = Undefined => sessions' = sessions ]_vars

\* C7's case: a session was deleted while the store held others.
C7_Witness ==
  /\ lastCall.op = "deleteSession"
  /\ lastCall.existed
  /\ getSession(sessions, lastCall.sessionId) = Undefined
  /\ sessions # << >>

\* C8: a connect request that succeeds adds exactly one session, holding the
\* resolved credentials, to the store, sets the cookie to its id and answers
\* {success, sessionId} with that id; one that fails answers 400, adds no
\* session and leaves the cookie as it was.
C8_ConnectAddsOneSession ==
  [][ \A c \in Browsers :
        /\ (reqs[c].pc = "bound" /\ reqs'[c].pc = "created") =>
             /\ Cardinality(DOMAIN sessions') = Cardinality(DOMAIN sessions) + 1
             /\ getSession(sessions', reqs'[c].session.id) = reqs'[c].session
             /\ reqs'[c].session.credentials = reqs[c].credentials
        /\ (reqs[c].pc = "created" /\ reqs'[c].pc = "done") =>
             /\ reqs'[c].status = 200
             /\ reqs'[c].out = [success |-> TRUE, sessionId |-> reqs[c].session.id]
             /\ cookie'[c] = reqs[c].session.id
        /\ (/\ reqs'[c].handler \in ConnectHandlers
            /\ reqs'[c].pc = "done"
            /\ reqs'[c] # reqs[c]
            /\ reqs[c].pc # "created") =>
             /\ reqs'[c].status = 400
             /\ sessions' = sessions
             /\ cookie' = cookie ]_vars

\* The required fields of a body of POST /api/connect/credentials that are
\* missing or empty.
BadFields(body) ==
  {f \in {"accessKeyId", "secretAccessKey", "region"} :
     body[f] = UndefinedStr \/ body[f] = EmptyString}

\* C9: POST /api/connect/credentials with non-empty accessKeyId, secretAccessKey
\* and region resolves to a record equal to those fields and the sessionToken,
\* which is the record stored; with a required field missing or empty it fails
\* with issues that name exactly those fields; no provider call is made.
C9_StaticKeyResolver ==
  LET r == reqs["b1"]
  IN r.handler = "connectCredentials" =>
       /\ r.calls = 0
       /\ BadFields(r.body) = {} =>
            /\ r.pc \in {"bound", "created", "done"}
            /\ r.credentials.accessKeyId = r.body.accessKeyId
            /\ r.credentials.secretAccessKey = r.body.secretAccessKey
            /\ r.credentials.region = r.body.region
            /\ r.credentials.sessionToken = r.body.sessionToken
            /\ DOMAIN r.credentials = {"accessKeyId", "secretAccessKey", "region", "sessionToken"}
            /\ r.pc = "done" =>
                 /\ r.status = 200
                 /\ getSession(sessions, r.session.id).credentials = r.credentials
       /\ BadFields(r.body) # {} =>
            /\ r.pc = "done"
            /\ r.status = 400
            /\ {issue.path : issue \in r.out.error} = BadFields(r.body)
            /\ sessions = << >>
            /\ s3Client = Null

\* C9's case: a body with a session token and a key the schema does not know
\* was resolved and stored.
C9_Witness ==
  LET r == reqs["b1"]
  IN /\ r.pc = "done"
     /\ r.status = 200
     /\ r.body.sessionToken = <<"k">>
     /\ r.body.extra = <<"k">>
     /\ Len(r.body.accessKeyId) = 2
     /\ getSession(sessions, r.session.id).credentials.sessionToken = <<"k">>

\* C10: no entry that listObjects returns has the queried prefix as its key,
\* be it a folder entry or a file entry.
C10_PrefixNotListed ==
  "result" \in DOMAIN listing =>
    \A i \in 1..Len(listing.result) : listing.result[i].key # listing.prefix

\* C10's case: the bucket holds an object whose key is the queried prefix (a
\* directory marker) beside another object under that prefix; the provider
\* returns both in Contents and the listing has only the other one.
C10_Witness ==
  /\ "result" \in DOMAIN listing
  /\ listing.prefix \in bucket
  /\ listing.prefix # << >>
  /\ Len(listing.result) = 1
  /\ "Contents" \in DOMAIN listing.response
  /\ Len(listing.response.Contents) = 2

\* The common prefixes and the objects of the provider's response to the
\* listing, as sequences (empty when the response leaves the field out).
ListedPrefixes ==
  IF "CommonPrefixes" \in DOMAIN listing.response
    THEN listing.response.CommonPrefixes ELSE << >>

ListedContents ==
  IF "Contents" \in DOMAIN listing.response
    THEN listing.response.Contents ELSE << >>

\* C11: every common prefix of the provider's response is returned as an entry
\* with isFolder true that has no size, lastModified or etag, every entry
\* with isFolder true is such a common prefix, and every returned entry that
\* comes from the response's contents has isFolder false.
C11_FoldersAndFilesClassified ==
  "result" \in DOMAIN listing =>
    /\ \A i \in 1..Len(ListedPrefixes) :
         \E j \in 1..Len(listing.result) :
           /\ listing.result[j].key = ListedPrefixes[i].Prefix
           /\ listing.result[j].isFolder
    /\ \A j \in 1..Len(listing.result) :
         IF listing.result[j].isFolder
           THEN /\ DOMAIN listing.result[j] = {"key", "isFolder"}
                /\ \E i \in 1..Len(ListedPrefixes) :
                     ListedPrefixes[i].Prefix = listing.result[j].key
           ELSE \E i \in 1..Len(ListedContents) :
                  /\ ListedContents[i].Key = listing.result[j].key
                  /\ listing.result[j].size = ListedContents[i].Size

\* C11's case: a listing whose response has a common prefix and an object, and
\* which returns a folder entry and a file entry.
C11_Witness ==
  /\ "result" \in DOMAIN listing
  /\ Len(ListedPrefixes) >= 1
  /\ Len(ListedContents) >= 1
  /\ \E i, j \in 1..Len(listing.result) :
       listing.result[i].isFolder /\ ~listing.result[j].isFolder

\* The place of the entry with this key in the provider's response: among the
\* common prefixes for a folder entry, among the objects for a file entry.
PlaceInResponse(entry) ==
  IF entry.isFolder
    THEN CHOOSE i \in 1..Len(ListedPrefixes) : ListedPrefixes[i].Prefix = entry.key
    ELSE CHOOSE i \in 1..Len(ListedContents) : ListedContents[i].Key = entry.key

\* C12: in the sequence listObjects returns no file entry comes before a folder
\* entry, and two entries of the same kind stand in the order in which the
\* provider's response has them.
C12_FoldersFirstInProviderOrder ==
  "result" \in DOMAIN listing =>
    \A i, j \in 1..Len(listing.result) :
      i < j =>
        /\ ~(~listing.result[i].isFolder /\ listing.result[j].isFolder)
        /\ listing.result[i].isFolder = listing.result[j].isFolder =>
             PlaceInResponse(listing.result[i]) < PlaceInResponse(listing.result[j])

\* C12's case: a listing that returns a folder and two files.
C12_Witness ==
  /\ "result" \in DOMAIN listing
  /\ Len(listing.result) = 3
  /\ listing.result[1].isFolder
  /\ ~listing.result[2].isFolder
  /\ ~listing.result[3].isFolder
  /\ listing.result[2].key # listing.result[3].key

\* Browser c's request was received in this step by the handler named.
Arrives(c, handler) ==
  /\ received' # received
  /\ reqs[c].pc \in {"idle", "done"}
  /\ reqs'[c].handler = handler
  /\ reqs'[c] # reqs[c] \/ reqs' = reqs

\* C13: GET /api/connection/status always answers 200; when the session id of
\* the cookie is in the store as the handler reads it, the answer is
\* {connected: true, region} with the region of the stored session, and in
\* every other case it is {connected: false}.
C13_StatusNeverErrors ==
  [][ \A c \in Browsers :
        LET r == reqs'[c]
        IN /\ Arrives(c, "status") =>
                IF r.sessionId \in DOMAIN sessions
                  THEN r.pc = "lookup" /\ r.session = sessions[r.sessionId]
                  ELSE r.pc = "done" \/ r.session = Undefined
           /\ (r.handler = "status" /\ r.pc = "done") =>
                /\ r.status = 200
                /\ r.out = IF r.session # Undefined
                             THEN [connected |-> TRUE,
                                   region |-> r.session.credentials.region]
                             ELSE [connected |-> FALSE] ]_vars

\* C14: a disconnect whose cookie names a session in the store removes that
\* session, and only that one, and clears the cookie; a disconnect whose cookie
\* names no session in the store leaves the store as it is; both answer
\* {success: true}.
C14_DisconnectRemovesAndIsIdempotent ==
  [][ \A c \in Browsers :
        LET r == reqs'[c]
        IN /\ Arrives(c, "disconnect") =>
                IF r.sessionId \in DOMAIN sessions
                  THEN /\ r.sessionId \notin DOMAIN sessions'
                       /\ \A id \in DOMAIN sessions \ {r.sessionId} :
                            getSession(sessions', id) = sessions[id]
                  ELSE sessions' = sessions
           /\ (reqs[c].pc = "deleted" /\ r.pc = "done") =>
                cookie'[c] = UndefinedStr
           /\ (r.handler = "disconnect" /\ r.pc = "done") =>
                /\ r.status = 200
                /\ r.out = [success |-> TRUE] ]_vars

\* C15: when a disconnect that removed a session has answered, the store does
\* not hold the session and, unless another session in the store has the same
\* credentials, the gateway's client is not one bound to its credentials.
C15_CredentialsClearedOnDisconnect ==
  [][ \A c \in Browsers :
        (reqs[c].pc = "deleted" /\ reqs'[c].pc = "done"
           /\ reqs[c].session # Undefined) =>
          /\ getSession(sessions', reqs[c].sessionId) = Undefined
          /\ (\A id \in DOMAIN sessions' :
                sessions'[id].credentials # reqs[c].session.credentials)
               => s3Client' # S3Client(reqs[c].session.credentials) ]_vars

\* C16: whenever no request is in flight, each session in the store is the
\* session that exactly one browser's cookie names.
C16_OneSessionOneCookie ==
  NoneInFlight =>
    \A id \in DOMAIN sessions :
      Cardinality({b \in Browsers : cookie[b] = id}) = 1

\* Whether a string field holds a non-empty string.
NonEmpty(value) == value # UndefinedStr /\ value # EmptyString

\* The session tokens the security-token service returns.
StsTokens ==
  {response.Credentials.SessionToken :
     response \in {x \in StsResponses :
                     "Credentials" \in DOMAIN x /\ x.Credentials # Undefined}}

\* C17, as stated: every record in the store has non-empty accessKeyId,
\* secretAccessKey and region, and has a (non-empty) sessionToken only if the
\* connect that stored it was a role assumption.
C17_TokenOnlyFromRole ==
  \A id \in DOMAIN sessions :
    /\ NonEmpty(sessions[id].credentials.accessKeyId)
    /\ NonEmpty(sessions[id].credentials.secretAccessKey)
    /\ NonEmpty(sessions[id].credentials.region)
    /\ NonEmpty(sessions[id].credentials.sessionToken)
         => reqs["b1"].handler = "connectRole"

\* C17, amended: every record in the store has non-empty accessKeyId,
\* secretAccessKey and region; a record stored by a role assumption has the
\* sessionToken the service returned, and a record stored by a static-key
\* connect has the sessionToken of the request body, if the body gave one.
C17_RecordsWellFormed ==
  \A id \in DOMAIN sessions :
    /\ NonEmpty(sessions[id].credentials.accessKeyId)
    /\ NonEmpty(sessions[id].credentials.secretAccessKey)
    /\ NonEmpty(sessions[id].credentials.region)
    /\ IF reqs["b1"].handler = "connectRole"
         THEN /\ sessions[id].credentials.sessionToken \in StsTokens
              /\ sessions[id].credentials.region = reqs["b1"].body.region
         ELSE sessions[id].credentials.sessionToken = reqs["b1"].body.sessionToken

\* C17's case: a static-key connect whose body gave a session token has stored
\* its record, token included.
C17_Witness ==
  /\ reqs["b1"].handler = "connectCredentials"
  /\ reqs["b1"].pc = "done"
  /\ reqs["b1"].body.sessionToken = <<"k", "k">>
  /\ \E id \in DOMAIN sessions :
       sessions[id].credentials.sessionToken = <<"k", "k">>

UploadLine == UploadUrl(BucketName)

\* C18: an upload request with a stored session whose file part or key field
\* is missing makes no provider call and is answered 400; any other makes one
\* PutObject of the file's bytes at the key of the body in the bucket of the
\* path, and is answered {success: true} unless the provider call fails.
C18_UploadChecksPartsThenPutsOnce ==
  \A c \in Browsers :
    LET r == reqs[c]
    IN (r.line = UploadLine /\ r.session # Undefined) =>
         IF r.body.file = Undefined \/ Falsy(r.body.key)
           THEN /\ r.calls = 0
                /\ r.pc \in {"lookup", "done"}
                /\ r.pc = "done" => r.status = 400 /\ DOMAIN r.out = {"error"}
           ELSE /\ r.calls <= 1
                /\ r.calls = 1 =>
                     r.command = [name |-> "PutObject", Bucket |-> BucketName,
                                  Key |-> r.body.key, Body |-> r.body.file.buffer]
                /\ r.pc = "done" =>
                     /\ r.calls = 1
                     /\ r.status \in {200, 500}
                     /\ r.status = 200 => r.out = [success |-> TRUE]

\* C18's case: an upload with a stored session, a file and a key was put once
\* at that key and answered {success: true}.
C18_Witness ==
  \E c \in Browsers :
    /\ reqs[c].line = UploadLine
    /\ reqs[c].pc = "done"
    /\ reqs[c].session # Undefined
    /\ reqs[c].calls = 1
    /\ reqs[c].command.Key = <<"k">>
    /\ reqs[c].command.Body = "bytes"
    /\ reqs[c].out = [success |-> TRUE]

\* C19: no request has its command sent to the provider more than once; a
\* request whose provider call failed is answered 500, on the connect endpoints
\* 400, with a body {error: message}.
C19_NoRetries ==
  \A c \in Browsers :
    LET r == reqs[c]
    IN /\ r.calls <= 1
       /\ r.attempts <= 1
       /\ (r.pc = "done" /\ r.calls = 1 /\ r.status # 200) =>
            /\ r.status = IF r.handler \in ConnectHandlers THEN 400 ELSE 500
            /\ DOMAIN r.out = {"error"}

\* The literal 'S3ClientSession'.
DefaultSessionName ==
  <<"S", "3", "C", "l", "i", "e", "n", "t", "S", "e", "s", "s", "i", "o", "n">>

\* C20: a role connect issues one AssumeRole command, with the role ARN of the
\* body and with the session name of the body or, when the body gives none,
\* 'S3ClientSession'; when the command is rejected or answered without
\* credentials, the connect answers 400 with {error: message} and changes
\* neither the gateway nor the store; when it is answered with credentials, the
\* record bound and then stored is the returned accessKeyId, secretAccessKey
\* and sessionToken with the region of the body.
C20_RolePath ==
  [][ \A c \in Browsers :
        LET r == reqs[c]
            r2 == reqs'[c]
        IN /\ (Arrives(c, "connectRole") /\ r2.pc = "sts") =>
                /\ r2.calls = 1
                /\ r2.command =
                     [name |-> "AssumeRole", RoleArn |-> r2.body.roleArn,
                      RoleSessionName |->
                        IF r2.body.sessionName = UndefinedStr
                          THEN DefaultSessionName ELSE r2.body.sessionName]
           /\ (r.pc = "sts" /\ r2.pc = "done") =>
                /\ r2.status = 400
                /\ DOMAIN r2.out = {"error"}
                /\ r2.calls = 1
                /\ r2.binds = 0
                /\ s3Client' = s3Client
                /\ sessions' = sessions
           /\ (r.pc = "sts" /\ r2.pc = "bound") =>
                /\ r2.calls = 1
                /\ r2.command = r.command
                /\ \E response \in StsResponses :
                     /\ "Credentials" \in DOMAIN response
                     /\ response.Credentials # Undefined
                     /\ r2.credentials =
                          [accessKeyId |-> response.Credentials.AccessKeyId,
                           secretAccessKey |-> response.Credentials.SecretAccessKey,
                           sessionToken |-> response.Credentials.SessionToken,
                           region |-> r.body.region]
                /\ s3Client' = S3Client(r2.credentials)
           /\ (r.handler = "connectRole" /\ r.pc = "bound" /\ r2.pc = "created") =>
                getSession(sessions', r2.session.id).credentials = r.credentials ]_vars

\* C20's case: a role connect without a session name was answered with
\* temporary credentials and has stored them, while the other browser's role
\* connect was rejected.
C20_Witness ==
  \E c, d \in Browsers :
    /\ reqs[c].handler = "connectRole"
    /\ reqs[c].pc = "done"
    /\ reqs[c].status = 200
    /\ reqs[c].command.RoleSessionName = DefaultSessionName
    /\ getSession(sessions, reqs[c].session.id) # Undefined
    /\ getSession(sessions, reqs[c].session.id).credentials.sessionToken \in StsTokens
    /\ reqs[d].handler = "connectRole"
    /\ reqs[d].pc = "done"
    /\ reqs[d].status = 400
    /\ reqs[d].calls = 1

\* Whether browser c's request is answered with status 200 in this step.
Succeeds(c, handler) ==
  /\ reqs[c].pc = "io"
  /\ reqs[c].handler = handler
  /\ reqs'[c].pc = "done"
  /\ reqs'[c].status = 200

\* Whether the entries list key as a file.
ListsFile(entries, key) ==
  \E i \in 1..Len(entries) : entries[i].key = key /\ ~entries[i].isFolder

\* C21: against a provider that keeps the bucket's objects by key, once the
\* browser is connected: an upload at a/b.txt that succeeds puts that key in
\* the bucket, a delete of a/b.txt that succeeds takes it out, nothing else
\* changes the bucket, and a list with prefix a/ that succeeds has the entry
\* {key: a/b.txt, isFolder: false} exactly when the key is in the bucket. So
\* a list after the upload has the entry and a list after the delete has not.
C21_UploadListDelete ==
  [][ /\ (Succeeds("b1", "upload") /\ reqs["b1"].body.key = FolderFile)
          => bucket' = bucket \cup {FolderFile}
      /\ (Succeeds("b1", "delete") /\ reqs["b1"].line = DeleteUrl(BucketName, FolderFile))
          => bucket' = bucket \ {FolderFile}
      /\ (FolderFile \in bucket) # (FolderFile \in bucket')
          => \/ Succeeds("b1", "upload") /\ reqs["b1"].body.key = FolderFile
             \/ Succeeds("b1", "delete")
                  /\ reqs["b1"].line = DeleteUrl(BucketName, FolderFile)
      /\ (Succeeds("b1", "listObjects")
            /\ reqs["b1"].line = ObjectsUrl(BucketName, FolderPrefix))
          => (ListsFile(reqs'["b1"].out.array, FolderFile) <=> FolderFile \in bucket)
    ]_vars

\* A list with prefix a/ has answered with the entry of a/b.txt, which is in
\* the bucket besides k.
C21_Witness ==
  /\ reqs["b1"].pc = "done"
  /\ reqs["b1"].status = 200
  /\ reqs["b1"].line = ObjectsUrl(BucketName, FolderPrefix)
  /\ ListsFile(reqs["b1"].out.array, FolderFile)
  /\ bucket = EndToEndKeys

\* The operations of the gateway.
GatewayOperations ==
  {"listBuckets", "listObjects", "getDownloadUrl", "deleteObject", "uploadObject"}

\* C22: each of listBuckets, listObjects, getDownloadUrl, deleteObject and
\* uploadObject, called while no client is bound, throws and calls neither
\* send nor getSignedUrl.
C22_UnboundOperationThrows ==
  (listing.op \in GatewayOperations /\ listing.client = Null)
    => /\ "thrown" \in DOMAIN listing
       /\ "result" \notin DOMAIN listing
       /\ listing.calls = 0

\* uploadObject was called while no client was bound, and threw.
C22_Witness ==
  /\ listing.op = "uploadObject"
  /\ listing.client = Null
  /\ listing.thrown = "AWS client not initialized"

\* C25: a getDownloadUrl that returns has called getSignedUrl once, and its
\* URL is for the bucket and the key it was called with, signed with the
\* client bound at the call at the time of the call (not taken from an
\* earlier call), and valid for 3600 seconds.
C25_PresignsRequestedObject ==
  (listing.op = "getDownloadUrl" /\ "result" \in DOMAIN listing)
    => /\ listing.calls = 1
       /\ listing.command =
            [name |-> "GetObject", Bucket |-> listing.args.bucketName, Key |-> listing.args.key]
       /\ listing.result =
            [Bucket |-> listing.args.bucketName, Key |-> listing.args.key, expiresIn |-> 3600,
             signedBy |-> listing.client, signedAt |-> listing.args.now]

\* getDownloadUrl returned a URL for key k at the latest time.
C25_Witness ==
  /\ listing.op = "getDownloadUrl"
  /\ listing.args.key = <<"k">>
  /\ listing.args.now = MaxClock
  /\ listing.result.signedAt = MaxClock

\* C29: after any sequence of binds the bound client is the one built from
\* the record of the last bind alone, whatever was bound before (so a bind of
\* the record that is bound already leaves the gateway as it was); and every
\* operation that is called runs on the client of the last bind before it.
C29_BindReplaces ==
  [][ /\ lastCall'.op = "bind" => s3Client' = S3Client(lastCall'.credentials)
      /\ (listing' # listing /\ lastCall.op = "bind")
           => listing'.client = S3Client(lastCall.credentials)
    ]_vars

\* An operation ran on the client of one record, and a bind of another record
\* has replaced that client since.
C29_Witness ==
  /\ listing.op = "deleteObject"
  /\ listing.client # Null
  /\ lastCall.op = "bind"
  /\ listing.client # S3Client(lastCall.credentials)
  /\ s3Client = S3Client(lastCall.credentials)

\* C23 (as the spec states it): an upload whose file is larger than the
\* documented ceiling is answered with an error by the middleware, before the
\* file is buffered for the handler and before any provider call; so no request
\* in a handler holds a file above the ceiling.
C23_OversizeRejectedEarly ==
  \A c \in Browsers :
    LET r == reqs[c]
    IN (r.handler = "upload" /\ r.body.file # Undefined /\ r.body.file.size > SizeCeiling)
         => /\ r.pc = "done"
            /\ r.status >= 400
            /\ r.session = Undefined
            /\ r.calls = 0

\* C24 (as the spec states it): when NODE_ENV is production and
\* SESSION_SECRET is not set, the session middleware is not configured with
\* 'dev-secret-key' as its signing key.
C24_NoDevSecretInProduction ==
  (/\ lastCall.op = "registerRoutes"
   /\ lastCall.env.NODE_ENV = <<"p", "r", "o", "d", "u", "c", "t", "i", "o", "n">>
   /\ lastCall.env.SESSION_SECRET = UndefinedStr)
    => lastCall.cookieSession.keys # <<DevSecretKey>>

\* C27 (as the spec states it): on download and delete, the key the handler
\* hands to the gateway is the key the client started from.
C27_KeyRoundTrip ==
  lastCall.op = "keyRequest" => lastCall.reached = lastCall.key

\* C26 (as the spec states it): every session id carries at least 128 bits of
\* randomness; an id of base-36 characters needs at least 25 characters for that.
C26_IdsCarry128Bits ==
  \A id \in DOMAIN sessions : Len(id) >= 25

\* C28 (as the spec states it): every id createSession produces is a non-empty
\* string, so a request of an operation that carries the cookie of a connect
\* whose session is in the store is not answered 401.
C28_ConnectedIsAuthenticated ==
  /\ \A id \in DOMAIN sessions : id # EmptyString
  /\ \A c \in Browsers :
       LET r == reqs[c]
       IN (/\ r.pc = "done"
           /\ r.line \in OperationLines
           /\ ~r.replayed
           /\ r.sessionId # UndefinedStr
           /\ r.sessionId \in DOMAIN sessions)
            => r.status # 401

\* The status the dialog shows for a file, "absent" when it is not listed.
StatusOf(files, file) ==
  IF \E i \in 1..Len(files) : files[i].file = file
    THEN files[CHOOSE i \in 1..Len(files) : files[i].file = file].status
    ELSE "absent"

\* The file a startUpload run that awaits is uploading.
Uploading(m) == m.closure[m.i].file

\* C30 (as the spec states it): whenever the status of a listed file changes,
\* it becomes 'uploading' for the file whose upload starts, or 'completed' or
\* 'error' for the file whose upload has just settled; and while an upload is
\* awaited, its file, if listed, shows 'uploading'.
C30_StatusOnUploadedFile ==
  [][ /\ \A file \in 1..MaxFiles :
           LET before == StatusOf(modal.files, file)
               after == StatusOf(modal'.files, file)
           IN (before # "absent" /\ after # "absent" /\ before # after)
                => \/ after = "uploading" /\ modal'.pc = "awaiting" /\ file = Uploading(modal')
                   \/ after \in {"completed", "error"} /\ modal.pc = "awaiting"
                        /\ file = Uploading(modal)
      /\ (modal'.pc = "awaiting" /\ StatusOf(modal'.files, Uploading(modal')) # "absent")
           => StatusOf(modal'.files, Uploading(modal')) = "uploading"
    ]_vars

=============================================================================
